---- MODULE Spec2Model ----
(***************************************************************************)
(* Student-marks backend: the upload/import reconciliation of students and *)
(* marks (app.py upload_marks, migrate_to_mongo.py import_marks_file,       *)
(* models.py helpers), student lookup and the admin delete of an upload.    *)
(*                                                                         *)
(* Texts are TLA+ strings; the Python conversions applied to them (str,     *)
(* strip, float, pd.to_datetime, secure_filename, splitext/lower) are       *)
(* operators defined on the texts the model's inputs are made of.           *)
(* The mark fields subject_name and exam_date (written by the batch import  *)
(* only, read by nothing) are not carried.                                  *)
(***************************************************************************)
EXTENDS Integers, Sequences, FiniteSets, TLC

\* Number of timestamped operations (uploads, batch imports, helper calls)
\* a behaviour may start; the clock `now` advances once per such operation,
\* and the operation's datetime.utcnow() is the value after the advance.
MaxTime == 2

\* Concurrent upload requests the web application serves.
Reqs == {1, 2}

---------------------------------------------------------------------------
(* Values *)

NaN == "<NaN>"            \* pandas missing cell
None == "<None>"          \* Python None / absent document field

NoHash == [pw |-> None, salt |-> 0]

\* bcrypt.hashpw(text, gensalt()); every gensalt() is a salt not drawn before
hash_text(text, salt) == [pw |-> text, salt |-> salt]

\* bool(hashed) and bcrypt.checkpw(text, hashed)
verify_hash(text, hashed) == hashed # NoHash /\ hashed.pw = text

\* pd.isna(v)
isna(v) == v = NaN

\* str(v): a missing cell prints as "nan"
PyStr(v) == IF v = NaN THEN "nan" ELSE v

\* s.strip()
Strip(s) ==
    CASE s = " "      -> ""
      [] s = " R1 "   -> "R1"
      [] s = " Bob "  -> "Bob"
      [] s = " 2005-01-01 " -> "2005-01-01"
      [] OTHER        -> s

\* float(v): [ok, v]; ok = FALSE stands for ValueError
PyFloat(v) ==
    CASE v = "88" -> [ok |-> TRUE, v |-> 88]
      [] v = "91" -> [ok |-> TRUE, v |-> 91]
      [] v = "70" -> [ok |-> TRUE, v |-> 70]
      [] v = "55" -> [ok |-> TRUE, v |-> 55]
      [] OTHER    -> [ok |-> FALSE, v |-> 0]

\* pd.to_datetime(v).date().isoformat(): [ok, v]; ok = FALSE stands for the
\* parser's exception
ToIsoDate(v) ==
    CASE v = "2005-01-01"  -> [ok |-> TRUE, v |-> "2005-01-01"]
      [] v = "2006-02-02"  -> [ok |-> TRUE, v |-> "2006-02-02"]
      [] v = "Jan 1 2005"  -> [ok |-> TRUE, v |-> "2005-01-01"]
      [] OTHER             -> [ok |-> FALSE, v |-> None]

\* c.lower().strip() on a column header
NormColumn(c) ==
    CASE c = "Register_Number" -> "register_number"
      [] c = " marks "         -> "marks"
      [] c = "DOB"             -> "dob"
      [] OTHER                 -> c

\* werkzeug secure_filename(name)
secure_filename(name) ==
    CASE name = "../a.csv"  -> "a.csv"
      [] name = "b c.csv"   -> "b_c.csv"
      [] OTHER              -> name

\* os.path.splitext(name.lower())[1]
SplitExtLower(name) ==
    CASE name \in {"a.csv", "../a.csv", "b.csv", "b c.csv", "b_c.csv", "c.csv", "d.csv",
                   "e.csv", "f.csv", "g.csv", "K.CSV"} -> ".csv"
      [] name \in {"h.xlsx"} -> ".xlsx"
      [] name \in {"n.txt"}  -> ".txt"
      [] OTHER               -> ""

ALLOWED_EXTS == {".xlsx", ".xls", ".csv"}

allowed_file(name) == SplitExtLower(name) \in ALLOWED_EXTS

---------------------------------------------------------------------------
(* Inputs: file contents, upload requests, tokens *)

FullHeader == <<"Register_Number", "subject_code", " marks ", "student_name", "DOB">>

\* A file's bytes as pandas reads them: readable (read_csv/read_excel does
\* not raise), the header as written in the file, the data rows (one cell
\* per header column).
ContentOf(cid) ==
    CASE cid = "K1" ->
           [readable |-> TRUE, cols |-> FullHeader,
            rows |-> << <<"R1", "MATH", "88", "Alice", "2005-01-01">>,
                        <<"R1", "PHYS", "91", "Alice", "2005-01-01">> >>]
      [] cid = "K2" ->
           [readable |-> TRUE, cols |-> FullHeader,
            rows |-> << <<" R1 ", "MATH", "70", NaN, "2006-02-02">>,
                        <<"R2", "MATH", "abc", " Bob ", NaN>>,
                        <<"R2", "PHYS", "55", " Bob ", NaN>> >>]
      [] cid = "K3" ->
           [readable |-> TRUE, cols |-> FullHeader,
            rows |-> << <<NaN, "MATH", "70", NaN, NaN>>,
                        <<" ", "MATH", "70", NaN, NaN>>,
                        <<"R2", " ", "70", NaN, NaN>>,
                        <<"R2", "PHYS", NaN, NaN, NaN>>,
                        <<"R2", "MATH", "55", "Bob", "Jan 1 2005">>,
                        <<"R1", "MATH", "55", NaN, "n/a">> >>]
      [] cid = "K5" ->
           [readable |-> FALSE, cols |-> <<>>, rows |-> <<>>]
      [] cid = "K6" ->
           [readable |-> TRUE, cols |-> <<"Register_Number", "subject_code">>,
            rows |-> << <<"R1", "MATH">> >>]
      [] cid = "K7" ->
           [readable |-> TRUE, cols |-> FullHeader, rows |-> <<>>]
      [] cid = "K8" ->
           [readable |-> TRUE, cols |-> <<"subject_code", " marks ">>, rows |-> <<>>]
      [] OTHER ->
           [readable |-> TRUE, cols |-> <<"register_number", "subject_code", "marks">>,
            rows |-> << <<"R2", "MATH", "91">> >>]

\* The content ids in use (None: no file), and their contents as a table
ContentIds == {"K1", "K2", "K3", "K5", "K6", "K7", "K8", "K9", None}

ContentTable == [cid \in ContentIds |-> ContentOf(cid)]

Content(cid) == ContentTable[cid]

\* The Authorization header of a request
Tokens == {"none", "garbage", "expired", "staff", "admin"}

\* An upload request: its Authorization token and request.files["file"]
\* (present or not, its filename, its bytes)
UploadReq(token, hasFile, filename, cid) ==
    [token |-> token, hasFile |-> hasFile, filename |-> filename, cid |-> cid]

UploadInputs ==
    { UploadReq("staff",   TRUE,  "a.csv",    "K1"),
      UploadReq("admin",   TRUE,  "b c.csv",  "K2"),
      UploadReq("staff",   TRUE,  "../a.csv", "K3"),
      UploadReq("admin",   TRUE,  "f.csv",    "K7"),
      UploadReq("staff",   TRUE,  "n.txt",    "K1"),
      UploadReq("staff",   TRUE,  "a.csv",    "K5"),
      UploadReq("staff",   TRUE,  "e.csv",    "K6"),
      UploadReq("staff",   TRUE,  "",         "K1"),
      UploadReq("staff",   FALSE, "",         "K1"),
      UploadReq("none",    TRUE,  "a.csv",    "K1"),
      UploadReq("expired", TRUE,  "a.csv",    "K1") }

\* jwt.decode: the payload, or the _error marker
decode_jwt(token) ==
    CASE token = "staff"   -> [_error |-> None, email |-> "staff@x", role |-> "staff"]
      [] token = "admin"   -> [_error |-> None, email |-> "admin@x", role |-> "admin"]
      [] token = "expired" -> [_error |-> "expired", email |-> None, role |-> None]
      [] OTHER             -> [_error |-> "invalid", email |-> None, role |-> None]

\* Mutant of require_auth: the role of the token is not compared
require_auth_AnyRole(token, role) ==
    IF token = "none" THEN [code |-> 401, msg |-> "Missing token"]
    ELSE IF decode_jwt(token)._error # None
         THEN [code |-> 401, msg |-> "Invalid or expired token"]
    ELSE [code |-> 200, msg |-> "ok"]

\* require_auth(role): the response that turns the request away, or "ok"
require_auth(token, role) ==
    IF token = "none" THEN [code |-> 401, msg |-> "Missing token"]
    ELSE IF decode_jwt(token)._error # None
         THEN [code |-> 401, msg |-> "Invalid or expired token"]
    ELSE IF role # None /\ decode_jwt(token).role # role
         THEN [code |-> 403, msg |-> "Forbidden"]
    ELSE [code |-> 200, msg |-> "ok"]

---------------------------------------------------------------------------
(* Rows of a data frame *)

NormCols(cols) == {NormColumn(cols[k]) : k \in 1..Len(cols)}

\* df after df.columns = [c.lower().strip() ...]: the normalised columns of
\* each content and its rows as mappings from normalised column to cell
FrameTable ==
    [cid \in ContentIds |->
        LET cols == Content(cid).cols
        IN  [cols |-> NormCols(cols),
             rows |-> [i \in 1..Len(Content(cid).rows) |->
                          [col \in NormCols(cols) |->
                              Content(cid).rows[i][CHOOSE k \in 1..Len(cols) :
                                                      NormColumn(cols[k]) = col]]]]]

HasCol(cid, col) == col \in FrameTable[cid].cols

ROWS(cid) == FrameTable[cid].rows

\* row.get(col) / row[colmap[col]]
Cell(cid, i, col) == FrameTable[cid].rows[i][col]

REQUIRED == {"register_number", "subject_code", "marks"}

---------------------------------------------------------------------------
(* State *)

VARIABLES
    marksUniqueIdx, \* the unique index on marks (register_number, subject_code)
                    \* exists: app.py creates it when the application starts
    students,       \* students collection: register_number -> document (the
                    \* unique index on register_number makes it a function)
    marks,          \* marks collection: documents in insertion order
    uploads,        \* uploads collection: documents in insertion order
    blobs,          \* UPLOAD_DIR: stored file name -> file bytes (content id)
    now,            \* datetime.utcnow(), one tick per timestamped operation
    salts,          \* the number of bcrypt salts drawn for stored hashes
    up,             \* upload_marks: the local state of each request in progress
    mig,            \* import_marks_file: the local state of the batch import
    out             \* the response or return value of the step just taken

vars == <<marksUniqueIdx, students, marks, uploads, blobs, now, salts, up, mig, out>>

NoOut == [op |-> None, code |-> 0, msg |-> None, n |-> 0, name |-> None, body |-> <<>>]

Resp(op, code, msg) == [op |-> op, code |-> code, msg |-> msg, n |-> 0, name |-> None, body |-> <<>>]

IdleUp == [pc |-> "idle", filename |-> None, email |-> None, cid |-> None,
           i |-> 0, inserted |-> 0]

IdleMig == [pc |-> "idle", cid |-> None, i |-> 0, inserted |-> 0, errors |-> <<>>,
            found |-> FALSE, hadHash |-> FALSE]

NoStudents == [reg \in {} |-> [student_name |-> None, dob_hash |-> NoHash, created_at |-> 0]]

NoBlobs == [name \in {} |-> None]

Init ==
    /\ marksUniqueIdx = FALSE
    /\ students = NoStudents
    /\ marks = <<>>
    /\ uploads = <<>>
    /\ blobs = NoBlobs
    /\ now = 0
    /\ salts = 0
    /\ up = [r \in Reqs |-> IdleUp]
    /\ mig = IdleMig
    /\ out = NoOut

---------------------------------------------------------------------------
(* Collections *)

Indexes(seq, P(_)) == {k \in 1..Len(seq) : P(seq[k])}

Min(S) == CHOOSE x \in S : \A y \in S : x <= y

\* seq without its k-th document
RemoveAt(seq, k) == [j \in 1..(Len(seq) - 1) |-> IF j < k THEN seq[j] ELSE seq[j + 1]]

SameKey(m, reg, subject) == m.register_number = reg /\ m.subject_code = subject

HasDuplicateMarks(ms) ==
    \E j, k \in 1..Len(ms) :
        j # k /\ SameKey(ms[j], ms[k].register_number, ms[k].subject_code)

\* marks_col.find({"register_number": reg})
MarksOf(ms, reg) == SelectSeq(ms, LAMBDA m : m.register_number = reg)

---------------------------------------------------------------------------
(* upload_marks (app.py) *)

\* Mutant of UpsertStudentDoc: dob_hash under $set instead of $setOnInsert
UpsertStudentDoc_SetsHash(st, reg, student_name, dob, salt, t) ==
    IF reg \in DOMAIN st
    THEN [st EXCEPT ![reg].student_name = student_name,
                    ![reg].dob_hash = IF dob # None THEN hash_text(dob, salt) ELSE @]
    ELSE (reg :> [student_name |-> student_name,
                  dob_hash |-> IF dob # None THEN hash_text(dob, salt) ELSE NoHash,
                  created_at |-> t]) @@ st

\* Mutant of UpsertStudentDoc: update_one without upsert=True
UpsertStudentDoc_NoUpsert(st, reg, student_name, dob, salt, t) ==
    IF reg \in DOMAIN st
    THEN [st EXCEPT ![reg].student_name = student_name]
    ELSE st

\* Mutant of UpsertStudentDoc: the inserted document gets no dob_hash
UpsertStudentDoc_NoHash(st, reg, student_name, dob, salt, t) ==
    IF reg \in DOMAIN st
    THEN [st EXCEPT ![reg].student_name = student_name]
    ELSE (reg :> [student_name |-> student_name, dob_hash |-> NoHash,
                  created_at |-> t]) @@ st

\* students_col.update_one({"register_number": reg},
\*     {"$set": {student_name}, "$setOnInsert": {dob_hash?, register_number,
\*     created_at}}, upsert=True); dob = None when the row gives none
UpsertStudentDoc(st, reg, student_name, dob, salt, t) ==
    IF reg \in DOMAIN st
    THEN [st EXCEPT ![reg].student_name = student_name]
    ELSE (reg :> [student_name |-> student_name,
                  dob_hash |-> IF dob # None THEN hash_text(dob, salt) ELSE NoHash,
                  created_at |-> t]) @@ st

\* Mutant of UpsertMarkDoc: on an existing document $set leaves uploaded_by
UpsertMarkDoc_KeepsUploader(ms, reg, subject, value, email, t, filename) ==
    LET hit == Indexes(ms, LAMBDA m : SameKey(m, reg, subject))
    IN  IF hit # {}
        THEN [ms EXCEPT ![Min(hit)] =
                 [@ EXCEPT !.marks = value, !.uploaded_at = t, !.source_file = filename]]
        ELSE Append(ms, [register_number |-> reg, subject_code |-> subject,
                         marks |-> value, uploaded_by |-> email,
                         uploaded_at |-> t, source_file |-> filename])

\* marks_col.update_one({"register_number": reg, "subject_code": subject},
\*     {"$set": {marks, uploaded_by, uploaded_at, source_file}}, upsert=True)
UpsertMarkDoc(ms, reg, subject, value, email, t, filename) ==
    LET hit == Indexes(ms, LAMBDA m : SameKey(m, reg, subject))
    IN  IF hit # {}
        THEN [ms EXCEPT ![Min(hit)] =
                 [@ EXCEPT !.marks = value, !.uploaded_by = email,
                           !.uploaded_at = t, !.source_file = filename]]
        ELSE Append(ms, [register_number |-> reg, subject_code |-> subject,
                         marks |-> value, uploaded_by |-> email,
                         uploaded_at |-> t, source_file |-> filename])

\* Lines 127-152: the checks and the file save that precede the row loop.
\* [code, msg, saved]: the rejection (code 400) or code 200, and whether
\* file.save(path) ran.
UploadFileCheck(inp) ==
    IF ~inp.hasFile THEN [code |-> 400, msg |-> "No file uploaded", saved |-> FALSE]
    ELSE IF inp.filename = "" THEN [code |-> 400, msg |-> "Empty filename", saved |-> FALSE]
    ELSE IF ~allowed_file(inp.filename)
         THEN [code |-> 400, msg |-> "Unsupported file type", saved |-> FALSE]
    ELSE IF ~Content(inp.cid).readable
         THEN [code |-> 400, msg |-> "Invalid spreadsheet", saved |-> TRUE]
    ELSE IF ~(REQUIRED \subseteq NormCols(Content(inp.cid).cols))
         THEN [code |-> 400, msg |-> "Missing required columns", saved |-> TRUE]
    ELSE [code |-> 200, msg |-> "ok", saved |-> TRUE]

\* file.save(os.path.join(UPLOAD_DIR, secure_filename(file.filename)))
SaveBlob(bl, inp) ==
    [name \in DOMAIN bl \cup {secure_filename(inp.filename)} |->
        IF name = secure_filename(inp.filename) THEN inp.cid ELSE bl[name]]

\* A request is served by the first free worker
FreeSlot(r) == up[r].pc = "idle" /\ \A q \in Reqs : q < r => up[q].pc # "idle"

\* The request arrives: require_auth, then lines 127-154. A request that
\* gets as far as file.save counts as a timestamped operation.
BeginUpload(r, inp) ==
    /\ marksUniqueIdx
    /\ FreeSlot(r)
    /\ LET auth == require_auth(inp.token, None)
           chk == UploadFileCheck(inp)
       IN  IF auth.code # 200
           THEN /\ out' = Resp("upload", auth.code, auth.msg)
                /\ UNCHANGED <<blobs, up, now>>
           ELSE IF ~chk.saved
           THEN /\ out' = Resp("upload", chk.code, chk.msg)
                /\ UNCHANGED <<blobs, up, now>>
           ELSE /\ now < MaxTime
                /\ now' = now + 1
                /\ blobs' = SaveBlob(blobs, inp)
                /\ IF chk.code # 200
                   THEN /\ out' = Resp("upload", chk.code, chk.msg)
                        /\ UNCHANGED up
                   ELSE /\ up' = [up EXCEPT ![r] =
                                    [pc |-> "student",
                                     filename |-> secure_filename(inp.filename),
                                     email |-> decode_jwt(inp.token).email,
                                     cid |-> inp.cid, i |-> 1, inserted |-> 0]]
                        /\ out' = NoOut
    /\ UNCHANGED <<salts, marksUniqueIdx, students, marks, uploads, mig>>

\* Lines 156-161 on row i of the frame: reg, subject and the skip test
UploadReg(cid, i) == Strip(PyStr(Cell(cid, i, "register_number")))

UploadSubject(cid, i) == Strip(PyStr(Cell(cid, i, "subject_code")))

UploadSkips(cid, i) ==
    \/ UploadReg(cid, i) = ""
    \/ UploadSubject(cid, i) = ""
    \/ isna(Cell(cid, i, "marks"))

\* Line 163
UploadName(cid, i) ==
    IF HasCol(cid, "student_name") /\ ~isna(Cell(cid, i, "student_name"))
    THEN Strip(PyStr(Cell(cid, i, "student_name")))
    ELSE None

\* Lines 164-166: [ok, v]; v = None when the row gives no dob
UploadDob(cid, i) ==
    IF HasCol(cid, "dob") /\ ~isna(Cell(cid, i, "dob"))
    THEN ToIsoDate(Cell(cid, i, "dob"))
    ELSE [ok |-> TRUE, v |-> None]

\* The unhandled exception of a row: Flask answers 500 and the request ends
Abort500(r) ==
    /\ up' = [up EXCEPT ![r] = IdleUp]
    /\ out' = Resp("upload", 500, "Internal Server Error")

\* Lines 155-177 for row i: "skip" it, "abort" on the date parser's
\* exception, or "write" its student (hash_text draws a salt when the row
\* gives a dob, inserted or not)
UploadStudentOp(st, nsalts, cid, i, t) ==
    IF UploadSkips(cid, i)
    THEN [kind |-> "skip", students |-> st, salts |-> nsalts]
    ELSE IF ~UploadDob(cid, i).ok
    THEN [kind |-> "abort", students |-> st, salts |-> nsalts]
    ELSE [kind |-> "write",
          students |-> UpsertStudentDoc(st, UploadReg(cid, i), UploadName(cid, i),
                                        UploadDob(cid, i).v, nsalts + 1, t),
          salts |-> IF UploadDob(cid, i).v # None THEN nsalts + 1 ELSE nsalts]

\* Lines 179-192 for row i: float(marks_val) raises ("abort"), or the mark
\* is upserted ("write")
UploadMarkOp(ms, cid, i, email, t, filename) ==
    IF ~PyFloat(Cell(cid, i, "marks")).ok
    THEN [kind |-> "abort", marks |-> ms]
    ELSE [kind |-> "write",
          marks |-> UpsertMarkDoc(ms, UploadReg(cid, i), UploadSubject(cid, i),
                                  PyFloat(Cell(cid, i, "marks")).v, email, t, filename)]

UploadStudentStep(r) ==
    /\ up[r].pc = "student"
    /\ up[r].i <= Len(ROWS(up[r].cid))
    /\ LET op == UploadStudentOp(students, salts, up[r].cid, up[r].i, now)
       IN  /\ students' = op.students
           /\ salts' = op.salts
           /\ IF op.kind = "abort"
              THEN Abort500(r)
              ELSE /\ out' = NoOut
                   /\ up' = IF op.kind = "skip"
                            THEN [up EXCEPT ![r].i = @ + 1]
                            ELSE [up EXCEPT ![r].pc = "mark"]
    /\ UNCHANGED <<marksUniqueIdx, marks, uploads, blobs, now, mig>>

UploadMarkStep(r) ==
    /\ up[r].pc = "mark"
    /\ LET op == UploadMarkOp(marks, up[r].cid, up[r].i, up[r].email, now, up[r].filename)
       IN  /\ marks' = op.marks
           /\ IF op.kind = "abort"
              THEN Abort500(r)
              ELSE /\ out' = NoOut
                   /\ up' = [up EXCEPT ![r].pc = "student", ![r].i = @ + 1,
                                       ![r].inserted = @ + 1]
    /\ UNCHANGED <<marksUniqueIdx, students, uploads, blobs, now, salts, mig>>

\* Lines 194-200, after the last row
UploadFinish(r) ==
    /\ up[r].pc = "student"
    /\ up[r].i > Len(ROWS(up[r].cid))
    /\ uploads' = Append(uploads, [filename |-> up[r].filename,
                                   uploaded_by |-> up[r].email, uploaded_at |-> now])
    /\ out' = [Resp("upload", 200, "success") EXCEPT !.n = up[r].inserted]
    /\ up' = [up EXCEPT ![r] = IdleUp]
    /\ UNCHANGED <<marksUniqueIdx, students, marks, blobs, now, salts, mig>>

\* Lines 154-200 run to the end from row i, position pc of the loop body
\* ("student": lines 155-177, "mark": lines 179-192), on the collections
\* (st, ms) with no other request in between: the collections left and the
\* response.
RECURSIVE UploadRows(_, _, _, _, _, _, _, _, _, _)
UploadRows(st, ms, nsalts, cid, i, pc, inserted, email, t, filename) ==
    IF pc = "student"
    THEN IF i > Len(ROWS(cid))
         THEN [students |-> st, marks |-> ms, salts |-> nsalts, code |-> 200, n |-> inserted]
         ELSE LET sop == UploadStudentOp(st, nsalts, cid, i, t)
              IN  IF sop.kind = "skip"
                  THEN UploadRows(st, ms, nsalts, cid, i + 1, "student", inserted,
                                  email, t, filename)
                  ELSE IF sop.kind = "abort"
                  THEN [students |-> st, marks |-> ms, salts |-> nsalts,
                        code |-> 500, n |-> 0]
                  ELSE UploadRows(sop.students, ms, sop.salts, cid, i, "mark", inserted,
                                  email, t, filename)
    ELSE LET mop == UploadMarkOp(ms, cid, i, email, t, filename)
         IN  IF mop.kind = "abort"
             THEN [students |-> st, marks |-> ms, salts |-> nsalts, code |-> 500, n |-> 0]
             ELSE UploadRows(st, mop.marks, nsalts, cid, i + 1, "student", inserted + 1,
                             email, t, filename)

\* upload_marks on an accepted request inp at time t, run to the end on the
\* collections (st, ms)
RunUpload(st, ms, nsalts, inp, t) ==
    UploadRows(st, ms, nsalts, inp.cid, 1, "student", 0, decode_jwt(inp.token).email,
               t, secure_filename(inp.filename))

\* app.py lines 40-53: the application starts and ensures its indexes; the
\* unique index on marks cannot be built over duplicates (create_index
\* raises and the module does not load).
StartApp ==
    /\ ~marksUniqueIdx
    /\ ~HasDuplicateMarks(marks)
    /\ marksUniqueIdx' = TRUE
    /\ out' = NoOut
    /\ UNCHANGED <<students, marks, uploads, blobs, now, salts, up, mig>>

---------------------------------------------------------------------------
(* import_marks_file (migrate_to_mongo.py) *)

\* A call of import_marks_file: whether filepath exists, its name, its
\* bytes, the sheet_name argument (None is the command line's default)
ImportReq(exists, filename, cid, sheet) ==
    [exists |-> exists, filename |-> filename, cid |-> cid, sheet |-> sheet]

ImportInputs ==
    { ImportReq(TRUE,  "a.csv",  "K1", None),
      ImportReq(TRUE,  "b.csv",  "K2", None),
      ImportReq(TRUE,  "c.csv",  "K3", None),
      ImportReq(FALSE, "a.csv",  "K1", None),
      ImportReq(TRUE,  "n.txt",  "K1", None),
      ImportReq(TRUE,  "d.csv",  "K5", None),
      ImportReq(TRUE,  "e.csv",  "K6", None),
      ImportReq(TRUE,  "f.csv",  "K7", None),
      ImportReq(TRUE,  "g.csv",  "K8", None),
      ImportReq(TRUE,  "h.xlsx", "K6", None) }

\* Lines 100-127: the return value that ends the call before the row loop,
\* or "ok". pd.read_excel(sheet_name=None) returns a dict of frames, on
\* which df.empty raises AttributeError outside any try block.
ImportFileCheck(inp) ==
    LET ext == SplitExtLower(inp.filename)
    IN  IF ~inp.exists THEN "file-not-found"
        ELSE IF ext \notin {".xlsx", ".xls", ".csv"} THEN "unsupported-extension"
        ELSE IF ~Content(inp.cid).readable THEN "read-error"
        ELSE IF ext \in {".xlsx", ".xls"} /\ inp.sheet = None THEN "AttributeError"
        ELSE IF ROWS(inp.cid) = <<>> THEN "empty file"
        ELSE IF ~(REQUIRED \subseteq NormCols(Content(inp.cid).cols)) THEN "missing-column"
        ELSE "ok"

\* 200: {"inserted": 0, "errors": ["empty file"]}; 400: {"error": ...};
\* 500: the exception leaves import_marks_file
ImportReturnCode(chk) ==
    CASE chk = "empty file"     -> 200
      [] chk = "AttributeError" -> 500
      [] OTHER                  -> 400

BeginImport(inp) ==
    /\ mig.pc = "idle"
    /\ LET chk == ImportFileCheck(inp)
       IN  IF chk # "ok"
           THEN /\ out' = Resp("import", ImportReturnCode(chk), chk)
                /\ UNCHANGED <<mig, now>>
           ELSE /\ now < MaxTime
                /\ now' = now + 1
                /\ mig' = [IdleMig EXCEPT !.pc = "find", !.cid = inp.cid, !.i = 1]
                /\ out' = NoOut
    /\ UNCHANGED <<salts, marksUniqueIdx, students, marks, uploads, blobs, up>>

\* Lines 137-139
ImportReg(cid, i) == Strip(PyStr(Cell(cid, i, "register_number")))

ImportSubject(cid, i) == Strip(PyStr(Cell(cid, i, "subject_code")))

\* Line 141
ImportSkips(cid, i) ==
    \/ isna(ImportReg(cid, i))
    \/ ImportReg(cid, i) = ""
    \/ isna(ImportSubject(cid, i))
    \/ isna(Cell(cid, i, "marks"))

\* Lines 146-155: parsed date, or the raw trimmed text when parsing fails
ImportDob(cid, i) ==
    IF HasCol(cid, "dob") /\ ~isna(Cell(cid, i, "dob"))
    THEN IF ToIsoDate(Cell(cid, i, "dob")).ok
         THEN ToIsoDate(Cell(cid, i, "dob")).v
         ELSE Strip(PyStr(Cell(cid, i, "dob")))
    ELSE None

\* Lines 157-161
ImportName(cid, i) ==
    IF HasCol(cid, "student_name") /\ ~isna(Cell(cid, i, "student_name"))
    THEN Strip(PyStr(Cell(cid, i, "student_name")))
    ELSE None

\* errors.append({"row": int(idx)+2, "error": ...}); continue
ImportError(m, reason) ==
    [m EXCEPT !.errors = Append(@, [row |-> (m.i - 1) + 2, error |-> reason]),
              !.i = @ + 1, !.pc = "find"]

\* Lines 135-179 for row i: the required fields, then find_one
ImportFindStep ==
    /\ mig.pc = "find"
    /\ mig.i <= Len(ROWS(mig.cid))
    /\ IF ImportSkips(mig.cid, mig.i)
       THEN mig' = ImportError(mig, "missing required")
       ELSE LET reg == ImportReg(mig.cid, mig.i)
            IN  mig' = [mig EXCEPT !.pc = "student",
                                   !.found = reg \in DOMAIN students,
                                   !.hadHash = reg \in DOMAIN students
                                               /\ students[reg].dob_hash # NoHash]
    /\ out' = NoOut
    /\ UNCHANGED <<marksUniqueIdx, students, marks, uploads, blobs, now, salts, up>>

\* Lines 180-195 for row i, on the document find_one returned
ImportStudentStep ==
    /\ mig.pc = "student"
    /\ LET reg == ImportReg(mig.cid, mig.i)
           dob == ImportDob(mig.cid, mig.i)
           name == ImportName(mig.cid, mig.i)
       IN  IF ~mig.found
           THEN IF reg \in DOMAIN students
                THEN \* insert_one on a register number written meanwhile
                     /\ mig' = ImportError(mig, "DuplicateKeyError")
                     /\ UNCHANGED <<students, salts>>
                ELSE /\ students' = (reg :> [student_name |-> name,
                            dob_hash |-> IF dob # None THEN hash_text(dob, salts + 1)
                                         ELSE NoHash,
                            created_at |-> now]) @@ students
                     /\ salts' = IF dob # None THEN salts + 1 ELSE salts
                     /\ mig' = [mig EXCEPT !.pc = "mark"]
           ELSE IF dob # None /\ ~mig.hadHash
                THEN /\ students' = [students EXCEPT
                                        ![reg].dob_hash = hash_text(dob, salts + 1),
                                        ![reg].student_name = name]
                     /\ salts' = salts + 1
                     /\ mig' = [mig EXCEPT !.pc = "mark"]
                ELSE /\ mig' = [mig EXCEPT !.pc = "mark"]
                     /\ UNCHANGED <<students, salts>>
    /\ out' = NoOut
    /\ UNCHANGED <<marksUniqueIdx, marks, uploads, blobs, now, up>>

\* Lines 197-212 for row i: float(marks_val), then insert_one
ImportMarkStep ==
    /\ mig.pc = "mark"
    /\ LET reg == ImportReg(mig.cid, mig.i)
           subject == ImportSubject(mig.cid, mig.i)
           value == PyFloat(Cell(mig.cid, mig.i, "marks"))
       IN  IF ~value.ok
           THEN /\ mig' = ImportError(mig, "ValueError")
                /\ UNCHANGED marks
           ELSE IF marksUniqueIdx /\ Indexes(marks, LAMBDA m : SameKey(m, reg, subject)) # {}
           THEN /\ mig' = ImportError(mig, "DuplicateKeyError")
                /\ UNCHANGED marks
           ELSE /\ marks' = Append(marks,
                       [register_number |-> reg, subject_code |-> subject,
                        marks |-> value.v, uploaded_by |-> "migration-script",
                        uploaded_at |-> now, source_file |-> None])
                /\ mig' = [mig EXCEPT !.pc = "find", !.i = @ + 1, !.inserted = @ + 1]
    /\ out' = NoOut
    /\ UNCHANGED <<marksUniqueIdx, students, uploads, blobs, now, salts, up>>

\* Lines 214-215
ImportFinish ==
    /\ mig.pc = "find"
    /\ mig.i > Len(ROWS(mig.cid))
    /\ out' = [Resp("import", 200, "finished") EXCEPT !.n = mig.inserted, !.body = mig.errors]
    /\ mig' = IdleMig
    /\ UNCHANGED <<marksUniqueIdx, students, marks, uploads, blobs, now, salts, up>>

---------------------------------------------------------------------------
(* models.py helpers *)

\* upsert_student(students_col, register_number, dob)
upsert_student(reg, dob) ==
    /\ now < MaxTime
    /\ now' = now + 1
    /\ IF reg \in DOMAIN students
       THEN IF dob # None
            THEN students' = [students EXCEPT ![reg].dob_hash = hash_text(dob, salts + 1)]
            ELSE UNCHANGED students
       ELSE students' = (reg :> [student_name |-> None,
                   dob_hash |-> IF dob # None THEN hash_text(dob, salts + 1) ELSE NoHash,
                   created_at |-> now + 1]) @@ students
    /\ salts' = IF dob # None THEN salts + 1 ELSE salts
    /\ out' = Resp("upsert_student", 200, reg)
    /\ UNCHANGED <<marksUniqueIdx, marks, uploads, blobs, up, mig>>

\* insert_mark(marks_col, register_number, subject, marks, uploaded_by)
insert_mark(reg, subject, value, uploaded_by) ==
    /\ now < MaxTime
    /\ now' = now + 1
    /\ IF marksUniqueIdx /\ Indexes(marks, LAMBDA m : SameKey(m, reg, subject)) # {}
       THEN /\ out' = Resp("insert_mark", 500, "DuplicateKeyError")
            /\ UNCHANGED marks
       ELSE /\ marks' = Append(marks,
                   [register_number |-> reg, subject_code |-> subject,
                    marks |-> value, uploaded_by |-> uploaded_by,
                    uploaded_at |-> now + 1, source_file |-> None])
            /\ out' = Resp("insert_mark", 200, "ok")
    /\ UNCHANGED <<salts, marksUniqueIdx, students, uploads, blobs, up, mig>>

---------------------------------------------------------------------------
(* lookup and the admin operations (app.py) *)

LookupInputs ==
    { <<" R1 ", " 2005-01-01 ">>, <<"R2", "Jan 1 2005">>, <<"", "2005-01-01">> }

\* Mutant of LookupResponse: an unknown register number is answered 404
LookupResponse_NotFound(st, ms, register_number, candidate) ==
    LET reg == Strip(PyStr(register_number))
        dob == Strip(PyStr(candidate))
    IN  IF reg = "" \/ dob = ""
        THEN Resp("lookup", 400, "register_number and dob required")
        ELSE IF reg \notin DOMAIN st
        THEN Resp("lookup", 404, "Student not found")
        ELSE IF ~verify_hash(dob, st[reg].dob_hash)
        THEN Resp("lookup", 401, "Invalid details")
        ELSE [op |-> "lookup", code |-> 200, msg |-> reg, n |-> 0,
              name |-> st[reg].student_name, body |-> MarksOf(ms, reg)]

\* Lines 206-226: the response to register_number, dob
LookupResponse(st, ms, register_number, candidate) ==
    LET reg == Strip(PyStr(register_number))
        dob == Strip(PyStr(candidate))
    IN  IF reg = "" \/ dob = ""
        THEN Resp("lookup", 400, "register_number and dob required")
        ELSE IF reg \notin DOMAIN st \/ ~verify_hash(dob, st[reg].dob_hash)
        THEN Resp("lookup", 401, "Invalid details")
        ELSE [op |-> "lookup", code |-> 200, msg |-> reg, n |-> 0,
              name |-> st[reg].student_name, body |-> MarksOf(ms, reg)]

lookup(register_number, candidate) ==
    /\ marksUniqueIdx
    /\ out' = LookupResponse(students, marks, register_number, candidate)
    /\ UNCHANGED <<marksUniqueIdx, students, marks, uploads, blobs, now, salts, up, mig>>

DeleteInputs ==
    { <<"admin", "a.csv">>, <<"admin", "b c.csv">>, <<"admin", "">>, <<"staff", "a.csv">> }

\* uploads_col.delete_one({"filename": name})
DeleteOneUpload(ups, name) ==
    LET hit == Indexes(ups, LAMBDA u : u.filename = name)
    IN  IF hit = {} THEN ups ELSE RemoveAt(ups, Min(hit))

\* Mutant of DeleteManyMarks: deletes by register numbers of the file's marks
DeleteManyMarks_ByStudent(ms, name) ==
    SelectSeq(ms, LAMBDA m : \A x \in 1..Len(ms) :
                     ms[x].source_file = name => ms[x].register_number # m.register_number)

\* marks_col.delete_many({"source_file": name})
DeleteManyMarks(ms, name) == SelectSeq(ms, LAMBDA m : m.source_file # name)

\* os.path.exists(path) and os.remove(path)
RemoveBlob(bl, name) == [n \in DOMAIN bl \ {name} |-> bl[n]]

\* Lines 244-262; the three removals are taken as one step
delete_upload(token, filename) ==
    /\ marksUniqueIdx
    /\ LET auth == require_auth(token, "admin")
           name == secure_filename(filename)
       IN  IF auth.code # 200
           THEN /\ out' = Resp("delete", auth.code, auth.msg)
                /\ UNCHANGED <<marks, uploads, blobs>>
           ELSE IF name = ""
           THEN /\ out' = Resp("delete", 400, "filename required")
                /\ UNCHANGED <<marks, uploads, blobs>>
           ELSE /\ blobs' = RemoveBlob(blobs, name)
                /\ uploads' = DeleteOneUpload(uploads, name)
                /\ marks' = DeleteManyMarks(marks, name)
                /\ out' = Resp("delete", 200, name)
    /\ UNCHANGED <<marksUniqueIdx, students, now, salts, up, mig>>

\* The tokens GET /api/admin/uploads is called with
ListTokens == {"admin", "staff"}

\* Lines 230-242: the recorded uploads whose file is in UPLOAD_DIR
ListedUploads(ups, bl) ==
    LET kept == SelectSeq(ups, LAMBDA u : u.filename \in DOMAIN bl)
    IN  [k \in 1..Len(kept) |-> [name |-> kept[k].filename, bytes |-> bl[kept[k].filename]]]

list_uploads(token) ==
    /\ marksUniqueIdx
    /\ LET auth == require_auth(token, "admin")
       IN  IF auth.code # 200
           THEN out' = Resp("list", auth.code, auth.msg)
           ELSE out' = [Resp("list", 200, "uploads") EXCEPT !.body = ListedUploads(uploads, blobs)]
    /\ UNCHANGED <<marksUniqueIdx, students, marks, uploads, blobs, now, salts, up, mig>>

---------------------------------------------------------------------------
\* No upload and no batch import is in progress
Quiescent == mig.pc = "idle" /\ \A r \in Reqs : up[r].pc = "idle"

\* Spec: one writer at a time. Uploads are served by worker 1; an upload, a
\* batch import and a models.py helper call do not overlap. Lookups, deletes
\* and listings run between any two steps of the writer.
Workers == {1}

Next ==
    \/ StartApp
    \/ (Quiescent /\ \E r \in Workers, inp \in UploadInputs : BeginUpload(r, inp))
    \/ \E r \in Workers : UploadStudentStep(r)
    \/ \E r \in Workers : UploadMarkStep(r)
    \/ \E r \in Workers : UploadFinish(r)
    \/ (Quiescent /\ \E inp \in ImportInputs : BeginImport(inp))
    \/ ImportFindStep
    \/ ImportStudentStep
    \/ ImportMarkStep
    \/ ImportFinish
    \/ (Quiescent /\ \E dob \in {None, "2006-02-02"} : upsert_student("R1", dob))
    \/ (Quiescent /\ insert_mark("R1", "MATH", 55, "staff@x"))
    \/ \E q \in LookupInputs : lookup(q[1], q[2])
    \/ \E q \in DeleteInputs : delete_upload(q[1], q[2])
    \/ \E token \in ListTokens : list_uploads(token)

Spec == Init /\ [][Next]_vars

\* ConcSpec: the server's workers and the batch import run at once. Upload
\* requests are served by both workers, and an upload and the batch import
\* overlap step by step; each update_one(upsert=True), insert_one and
\* find_one is one atomic step of the store. The requests are those whose
\* rows meet on the same register number and the same (register number,
\* subject) pair.
ConcUploadInputs ==
    { UploadReq("staff", TRUE, "a.csv",   "K1"),
      UploadReq("admin", TRUE, "b c.csv", "K2"),
      UploadReq("none",  TRUE, "a.csv",   "K1") }

ConcImportInputs ==
    { ImportReq(TRUE, "a.csv", "K1", None),
      ImportReq(TRUE, "b.csv", "K2", None) }

ConcNext ==
    \/ StartApp
    \/ \E r \in Reqs, inp \in ConcUploadInputs : BeginUpload(r, inp)
    \/ \E r \in Reqs : UploadStudentStep(r)
    \/ \E r \in Reqs : UploadMarkStep(r)
    \/ \E r \in Reqs : UploadFinish(r)
    \/ \E inp \in ConcImportInputs : BeginImport(inp)
    \/ ImportFindStep
    \/ ImportStudentStep
    \/ ImportMarkStep
    \/ ImportFinish

ConcSpec == Init /\ [][ConcNext]_vars

---------------------------------------------------------------------------
(* Claims *)

\* A step of an import: of an upload request or of the batch import
ImportStepTaken == up' # up \/ mig' # mig

\* C1: under any sequence of uploads and batch imports, a step of an import
\* never changes a student's dob_hash once it is non-null (and never removes
\* the student).
C1_DobHashImmutable ==
    [][ImportStepTaken =>
         \A reg \in DOMAIN students :
             students[reg].dob_hash # NoHash =>
                 /\ reg \in DOMAIN students'
                 /\ students'[reg].dob_hash = students[reg].dob_hash]_vars

\* C1 witness: R1 holds the hash of its first dob (2005-01-01) after the row
\* of file K2 that gives R1 the dob 2006-02-02 was imported to the end.
C1_Witness ==
    /\ "R1" \in DOMAIN students
    /\ students["R1"].dob_hash.pw = "2005-01-01"
    /\ \E k \in 1..Len(marks) :
           /\ marks[k].register_number = "R1"
           /\ marks[k].marks = 70

\* C2: delete_upload(filename), filename in its stored form (the
\* secure_filename under which upload_marks records source_file), removes the
\* marks whose source_file is that name, keeps every other mark as it is and
\* in place, and leaves the students unchanged.
C2_DeleteFrame ==
    [][\A q \in DeleteInputs :
         (delete_upload(q[1], q[2]) /\ out'.code = 200) =>
             /\ \A k \in 1..Len(marks') : marks'[k].source_file # secure_filename(q[2])
             /\ marks' = SelectSeq(marks, LAMBDA m : m.source_file # secure_filename(q[2]))
             /\ students' = students]_vars

\* C2 witness: after delete of a.csv, the mark (R1, MATH) first written by
\* a.csv and overwritten by b_c.csv is still stored, the mark (R1, PHYS) of
\* a.csv is gone, and the student R1 created by a.csv is still there.
C2_Witness ==
    /\ out.op = "delete" /\ out.code = 200 /\ out.msg = "a.csv"
    /\ "R1" \in DOMAIN students
    /\ students["R1"].dob_hash.pw = "2005-01-01"
    /\ \E k \in 1..Len(marks) :
           SameKey(marks[k], "R1", "MATH") /\ marks[k].source_file = "b_c.csv"
    /\ \A k \in 1..Len(marks) : ~SameKey(marks[k], "R1", "PHYS")

---------------------------------------------------------------------------
\* The file-level defect of a file, if any: its extension is not supported,
\* its bytes cannot be parsed, or a required column is missing from it
FileDefect(filename, cid) ==
    IF SplitExtLower(filename) \notin ALLOWED_EXTS THEN "unsupported-extension"
    ELSE IF ~Content(cid).readable THEN "parse-error"
    ELSE IF ~(REQUIRED \subseteq NormCols(Content(cid).cols)) THEN "missing-column"
    ELSE None

\* The failure upload_marks answers (code 400) for a defect
UploadFailure(defect) ==
    CASE defect = "unsupported-extension" -> "Unsupported file type"
      [] defect = "parse-error"           -> "Invalid spreadsheet"
      [] defect = "missing-column"        -> "Missing required columns"

\* The failure import_marks_file returns ({"error": ...}) for a defect
ImportFailure(defect) ==
    CASE defect = "unsupported-extension" -> "unsupported-extension"
      [] defect = "parse-error"           -> "read-error"
      [] defect = "missing-column"        -> "missing-column"

\* C3: an import, through upload_marks or import_marks_file, of a file with
\* a file-level defect (unsupported extension, unparseable bytes, a required
\* column missing) returns the failure that corresponds to the defect and
\* leaves the students, marks and uploads collections as they were.
C3_FileRejection ==
    [][/\ \A r \in Reqs, inp \in UploadInputs :
            ( /\ BeginUpload(r, inp)
              /\ require_auth(inp.token, None).code = 200
              /\ inp.hasFile /\ inp.filename # ""
              /\ FileDefect(inp.filename, inp.cid) # None )
            => /\ out' = Resp("upload", 400, UploadFailure(FileDefect(inp.filename, inp.cid)))
               /\ UNCHANGED <<students, marks, uploads>>
       /\ \A inp \in ImportInputs :
            ( /\ BeginImport(inp)
              /\ inp.exists
              /\ FileDefect(inp.filename, inp.cid) # None )
            => /\ out' = Resp("import", 400, ImportFailure(FileDefect(inp.filename, inp.cid)))
               /\ UNCHANGED <<students, marks, uploads>>]_vars

\* A cell is blank: missing, or empty once trimmed
Blank(v) == isna(v) \/ Strip(v) = ""

\* Row i of the frame is invalid: register_number or subject_code blank, or
\* marks absent or not parseable as a number
InvalidRow(cid, i) ==
    \/ Blank(Cell(cid, i, "register_number"))
    \/ Blank(Cell(cid, i, "subject_code"))
    \/ isna(Cell(cid, i, "marks"))
    \/ ~PyFloat(Cell(cid, i, "marks")).ok

\* Request r takes a step on row i of its file
UploadRowStep(r) ==
    /\ up[r].pc \in {"student", "mark"}
    /\ up'[r] # up[r]
    /\ up[r].i <= Len(ROWS(up[r].cid))

\* The batch import takes a step on row i of its file
ImportRowStep ==
    /\ mig.pc \in {"find", "student", "mark"}
    /\ mig' # mig
    /\ mig.i <= Len(ROWS(mig.cid))

\* C4: a step of upload_marks or import_marks_file on an invalid row (blank
\* register_number, blank subject_code, marks absent or not a number) creates
\* or modifies no student and no mark.
C4_InvalidRowNoTrace ==
    [][/\ \A r \in Reqs :
            (UploadRowStep(r) /\ InvalidRow(up[r].cid, up[r].i))
            => UNCHANGED <<students, marks>>
       /\ (ImportRowStep /\ InvalidRow(mig.cid, mig.i))
            => UNCHANGED <<students, marks>>]_vars

\* ms holds a mark of (reg, subject) with the value of cell v
HoldsMark(ms, reg, subject, v) ==
    \E k \in 1..Len(ms) : SameKey(ms[k], reg, subject) /\ ms[k].marks = PyFloat(v).v

\* C5: a failing row never aborts the batch. An import (upload_marks or
\* import_marks_file) of a file that passed the file-level checks ends only
\* after its last row and by returning its processed count, and when it
\* leaves a valid row, the row's mark is stored, whatever the rows before it.
C5_NoAbort ==
    [][/\ \A r \in Reqs :
            /\ (up[r].pc \in {"student", "mark"} /\ up'[r].pc = "idle")
               => /\ up[r].i > Len(ROWS(up[r].cid))
                  /\ out'.op = "upload" /\ out'.code = 200
                  /\ out'.n = up[r].inserted
            /\ ( /\ UploadRowStep(r)
                 /\ ~InvalidRow(up[r].cid, up[r].i)
                 /\ (up'[r].pc = "idle" \/ up'[r].i > up[r].i) )
               => HoldsMark(marks', UploadReg(up[r].cid, up[r].i),
                            UploadSubject(up[r].cid, up[r].i),
                            Cell(up[r].cid, up[r].i, "marks"))
       /\ (mig.pc \in {"find", "student", "mark"} /\ mig'.pc = "idle")
          => /\ mig.i > Len(ROWS(mig.cid))
             /\ out'.op = "import" /\ out'.code = 200
             /\ out'.n = mig.inserted
       /\ ( /\ ImportRowStep
            /\ ~InvalidRow(mig.cid, mig.i)
            /\ (mig'.pc = "idle" \/ mig'.i > mig.i) )
          => HoldsMark(marks', ImportReg(mig.cid, mig.i),
                       ImportSubject(mig.cid, mig.i),
                       Cell(mig.cid, mig.i, "marks"))]_vars

\* ms holds exactly one mark of (reg, subject), and it carries the value,
\* the uploader and the time of the write
Overwritten(ms, reg, subject, value, by, t) ==
    /\ Cardinality(Indexes(ms, LAMBDA m : SameKey(m, reg, subject))) = 1
    /\ \E k \in 1..Len(ms) :
           /\ SameKey(ms[k], reg, subject)
           /\ ms[k].marks = value /\ ms[k].uploaded_by = by /\ ms[k].uploaded_at = t

\* C6: no step leaves two marks with the same (register_number,
\* subject_code), and a row of upload_marks or import_marks_file with a
\* numeric marks value, or a call of insert_mark, on a pair already stored
\* overwrites the stored mark (value, uploader, time) and adds none.
C6_OneMarkPerPair ==
    [][/\ ~HasDuplicateMarks(marks')
       /\ \A r \in Reqs :
            ( /\ up[r].pc = "mark" /\ up'[r] # up[r]
              /\ PyFloat(Cell(up[r].cid, up[r].i, "marks")).ok )
            => Overwritten(marks', UploadReg(up[r].cid, up[r].i),
                           UploadSubject(up[r].cid, up[r].i),
                           PyFloat(Cell(up[r].cid, up[r].i, "marks")).v,
                           up[r].email, now)
               /\ \E k \in 1..Len(marks') :
                      /\ SameKey(marks'[k], UploadReg(up[r].cid, up[r].i),
                                 UploadSubject(up[r].cid, up[r].i))
                      /\ marks'[k].source_file = up[r].filename
       /\ ( /\ mig.pc = "mark" /\ mig' # mig
            /\ PyFloat(Cell(mig.cid, mig.i, "marks")).ok )
          => Overwritten(marks', ImportReg(mig.cid, mig.i),
                         ImportSubject(mig.cid, mig.i),
                         PyFloat(Cell(mig.cid, mig.i, "marks")).v,
                         "migration-script", now)
       /\ insert_mark("R1", "MATH", 55, "staff@x")
          => Overwritten(marks', "R1", "MATH", 55, "staff@x", now')]_vars

\* C8: an upload that passed the file-level checks adds exactly one Upload
\* record (filename, uploader, timestamp), at the step that ends it, whatever
\* became of its rows; no other step of an upload, and no upload turned away
\* before its rows, adds or removes an Upload record.
C8_OneUploadRecord ==
    [][\A r \in Reqs :
         /\ (up[r].pc \in {"student", "mark"} /\ up'[r].pc = "idle")
            => uploads' = Append(uploads, [filename |-> up[r].filename,
                                           uploaded_by |-> up[r].email,
                                           uploaded_at |-> now])
         /\ (up'[r] # up[r] /\ up'[r].pc # "idle") => uploads' = uploads
         /\ (out'.op = "upload" /\ out'.code # 200 /\ up' = up) => uploads' = uploads]_vars

\* The upload requests that pass require_auth and the file-level checks
AcceptedUploads ==
    {inp \in UploadInputs : /\ require_auth(inp.token, None).code = 200
                            /\ UploadFileCheck(inp).code = 200}

\* The mark records, timestamps aside
MarkData(ms) ==
    [k \in 1..Len(ms) |->
        [register_number |-> ms[k].register_number, subject_code |-> ms[k].subject_code,
         marks |-> ms[k].marks, uploaded_by |-> ms[k].uploaded_by,
         source_file |-> ms[k].source_file]]

\* Uploading inp twice in a row, at times t + 1 and t + 2, on the collections
\* (st, ms): the second run answers as the first and leaves the students and
\* the mark data the first run left
IdempotentOn(st, ms, nsalts, t) ==
    \A inp \in AcceptedUploads :
        \A r1 \in {RunUpload(st, ms, nsalts, inp, t + 1)} :
            \A r2 \in {RunUpload(r1.students, r1.marks, r1.salts, inp, t + 2)} :
                /\ r2.code = r1.code /\ r2.n = r1.n
                /\ r2.students = r1.students
                /\ MarkData(r2.marks) = MarkData(r1.marks)

\* What is left of request r's run, from the state it is in
RestOfRun(st, ms, nsalts, u, t) ==
    UploadRows(st, ms, nsalts, u.cid, u.i, u.pc, u.inserted, u.email, t, u.filename)

\* C7: uploading the same file twice by the same uploader is idempotent on
\* stored data. From the collections of every state of the running
\* application in which no import is in progress, the second of two
\* consecutive runs of an accepted upload returns the processed count of the
\* first, and leaves the students and the marks (timestamps aside) as the
\* first left them (the collections are tried at the step that leaves them
\* so: one that ends an import, or changes them). The runs are the steps
\* the requests take: a step of a request leaves the outcome of the rest of
\* its run unchanged, and the step that ends it answers with that outcome.
C7_Idempotent ==
    [][/\ ( /\ marksUniqueIdx' /\ Quiescent'
             /\ (~Quiescent \/ <<marksUniqueIdx, students, marks>>' # <<marksUniqueIdx, students, marks>>) )
          => IdempotentOn(students', marks', salts', now')
       /\ \A r \in Reqs :
            (up[r].pc \in {"student", "mark"} /\ up'[r] # up[r])
            => \A rest \in {RestOfRun(students, marks, salts, up[r], now)} :
                 IF up'[r].pc = "idle"
                 THEN /\ students' = rest.students /\ marks' = rest.marks
                      /\ out'.code = rest.code /\ out'.n = rest.n
                 ELSE RestOfRun(students', marks', salts', up'[r], now') = rest]_vars

\* C7 witness: the file a.csv (content K1) was uploaded twice by staff@x:
\* two Upload records of it, the second run answered 200 with 2 processed
\* rows and rewrote the mark (R1, MATH) at time 2.
C7_Witness ==
    /\ out.op = "upload" /\ out.code = 200 /\ out.n = 2
    /\ Len(uploads) = 2
    /\ \A k \in 1..2 : uploads[k].filename = "a.csv" /\ uploads[k].uploaded_by = "staff@x"
    /\ Len(marks) = 2
    /\ \E k \in 1..Len(marks) :
           /\ SameKey(marks[k], "R1", "MATH") /\ marks[k].marks = 88
           /\ marks[k].uploaded_at = 2 /\ marks[k].source_file = "a.csv"

\* Register numbers and candidate dobs a lookup is tried with
LookupRegs == {" R1 ", "R2", "nan", "R9"}

LookupDobs == {" 2005-01-01 ", "2006-02-02", "Jan 1 2005"}

\* The authentication failure of lookup
AuthFailure == Resp("lookup", 401, "Invalid details")

\* The students without the document of reg
WithoutStudent(st, reg) == [x \in DOMAIN st \ {reg} |-> st[x]]

\* C9: lookup with a non-empty register number and a non-empty dob answers
\* the same authentication failure when no student has the register number,
\* when the student has no dob_hash and when the dob does not verify against
\* the student's dob_hash; a lookup that fails is answered as it would be if
\* the student's document did not exist.
C9_UniformFailure ==
    \A register_number \in LookupRegs, candidate \in LookupDobs :
        LET reg == Strip(PyStr(register_number))
            dob == Strip(PyStr(candidate))
            resp == LookupResponse(students, marks, register_number, candidate)
        IN  (reg # "" /\ dob # "")
            => /\ ( \/ reg \notin DOMAIN students
                    \/ students[reg].dob_hash = NoHash
                    \/ students[reg].dob_hash.pw # dob )
                  => resp = AuthFailure
               /\ resp.code # 200
                  => resp = LookupResponse(WithoutStudent(students, reg), marks,
                                           register_number, candidate)

\* C9 witness: a lookup was answered the authentication failure in a state
\* where R2 has no dob_hash, R1 has the dob_hash of 2006-02-02 (the candidate
\* 2005-01-01 does not verify) and no student has the register number R9.
C9_Witness ==
    /\ out = AuthFailure
    /\ "R2" \in DOMAIN students /\ students["R2"].dob_hash = NoHash
    /\ "R1" \in DOMAIN students /\ students["R1"].dob_hash.pw = "2006-02-02"
    /\ "R9" \notin DOMAIN students

\* Row i of the frame carries a dob
RowHasDob(cid, i) == HasCol(cid, "dob") /\ ~isna(Cell(cid, i, "dob"))

\* The rows of the frame that upload_marks does not skip, for reg
RowsFor(cid, reg) ==
    {i \in 1..Len(ROWS(cid)) : ~UploadSkips(cid, i) /\ UploadReg(cid, i) = reg}

\* lookup succeeds on (st, ms) and returns the marks stored for reg, one per
\* subject_code
LookupReturnsMarks(st, ms, reg, candidate) ==
    \A resp \in {LookupResponse(st, ms, reg, candidate)} :
        /\ resp.code = 200
        /\ resp.body = MarksOf(ms, Strip(PyStr(reg)))
        /\ \A j, k \in 1..Len(resp.body) :
               resp.body[j].subject_code = resp.body[k].subject_code => j = k

\* A step of lookup leaves every collection and the file store as they are
LookupReadsOnly ==
    out'.op = "lookup" => UNCHANGED <<students, marks, uploads, blobs, marksUniqueIdx>>

---------------------------------------------------------------------------
\* The token is valid and unexpired: jwt.decode accepts it
ValidToken(token) == token # "none" /\ decode_jwt(token)._error = None

\* The token is valid and its role is admin
AdminToken(token) == ValidToken(token) /\ decode_jwt(token).role = "admin"

\* The callers the valid tokens stand for
ValidEmails == {decode_jwt(t).email : t \in {t \in Tokens : ValidToken(t)}}

\* The request was turned away by the gate
Rejected(resp) == resp.code \in {401, 403} /\ resp.body = <<>>

\* C11: upload_marks runs only with a valid unexpired token, list_uploads and
\* delete_upload only with a valid token of role admin; a request without
\* such a token is answered 401 or 403, starts no upload, and changes no
\* student, mark or upload record and no stored file.
C11_AuthGate ==
    [][/\ \A r \in Reqs, inp \in UploadInputs :
            (~ValidToken(inp.token) /\ out'.op = "upload" /\ BeginUpload(r, inp))
            => /\ Rejected(out')
               /\ UNCHANGED <<students, marks, uploads, blobs, up>>
       /\ \A q \in DeleteInputs :
            (~AdminToken(q[1]) /\ out'.op = "delete" /\ delete_upload(q[1], q[2]))
            => /\ Rejected(out')
               /\ UNCHANGED <<students, marks, uploads, blobs>>
       /\ \A token \in ListTokens :
            (~AdminToken(token) /\ out'.op = "list" /\ list_uploads(token))
            => /\ Rejected(out')
               /\ UNCHANGED <<students, marks, uploads, blobs>>
       /\ \A r \in Reqs :
            (up[r].pc = "idle" /\ up'[r].pc # "idle")
            => up'[r].email \in ValidEmails]_vars

\* C11 witness: with the mark and the Upload record of a.csv stored and the
\* file in UPLOAD_DIR, a delete_upload by a staff token was answered 403.
C11_Witness ==
    /\ out = Resp("delete", 403, "Forbidden")
    /\ Len(uploads) = 1 /\ uploads[1].filename = "a.csv"
    /\ "a.csv" \in DOMAIN blobs
    /\ \E k \in 1..Len(marks) : marks[k].source_file = "a.csv"

\* Request r writes the student of its row: lines 168-177 ran
UploadStudentWritten(r) == up[r].pc = "student" /\ up'[r].pc = "mark"

\* The batch import is past the student write of its row: lines 179-195 ran
ImportStudentWritten == mig.pc = "student" /\ mig'.pc = "mark"

\* What a row's student write owes to the dob_hash of the existing student
\* reg: set to the hash of the row's dob when it was null and the row gives a
\* dob, left as it was in every other case
HashSetOnlyWhenNull(cid, i, reg) ==
    IF students[reg].dob_hash = NoHash /\ RowHasDob(cid, i)
    THEN /\ students'[reg].dob_hash # NoHash
         /\ students'[reg].dob_hash.pw \in {ToIsoDate(Cell(cid, i, "dob")).v,
                                           Strip(PyStr(Cell(cid, i, "dob")))}
    ELSE students'[reg].dob_hash = students[reg].dob_hash

\* C12: when the student of an imported row (upload_marks or
\* import_marks_file) already exists with a null dob_hash and the row gives a
\* dob, the row's student write sets dob_hash to the hash of that dob; in
\* every other case it leaves the dob_hash of the existing student as it was.
C12_HashSetWhenNull ==
    [][/\ \A r \in Reqs :
            (UploadStudentWritten(r) /\ UploadReg(up[r].cid, up[r].i) \in DOMAIN students)
            => HashSetOnlyWhenNull(up[r].cid, up[r].i, UploadReg(up[r].cid, up[r].i))
       /\ (ImportStudentWritten /\ ImportReg(mig.cid, mig.i) \in DOMAIN students)
          => HashSetOnlyWhenNull(mig.cid, mig.i, ImportReg(mig.cid, mig.i))]_vars

\* Row i of the frame gives a student_name that is not empty once trimmed
RowHasName(cid, i) ==
    /\ HasCol(cid, "student_name")
    /\ ~Blank(Cell(cid, i, "student_name"))

\* What a row's student write owes to the student_name of the existing
\* student reg: overwritten by the row's name when it gives one, left as it
\* was when it gives none
NameOverwrittenOrKept(cid, i, reg) ==
    IF RowHasName(cid, i)
    THEN students'[reg].student_name = Strip(PyStr(Cell(cid, i, "student_name")))
    ELSE students'[reg].student_name = students[reg].student_name

\* C13: for an existing student, the student write of an imported row
\* (upload_marks or import_marks_file) that gives a non-empty student_name
\* overwrites the stored student_name with it, and that of a row that gives
\* none leaves the stored student_name unchanged.
C13_NameOverwriteNoReset ==
    [][/\ \A r \in Reqs :
            (UploadStudentWritten(r) /\ UploadReg(up[r].cid, up[r].i) \in DOMAIN students)
            => NameOverwrittenOrKept(up[r].cid, up[r].i, UploadReg(up[r].cid, up[r].i))
       /\ (ImportStudentWritten /\ ImportReg(mig.cid, mig.i) \in DOMAIN students)
          => NameOverwrittenOrKept(mig.cid, mig.i, ImportReg(mig.cid, mig.i))]_vars

\* Nothing of the upload called name is left in the two collections
UploadGone(ups, ms, name) ==
    /\ \A k \in 1..Len(ups) : ups[k].filename # name
    /\ \A k \in 1..Len(ms) : ms[k].source_file # name

\* C14: after a delete_upload that went through for a filename, no Upload
\* record with that filename and no Mark whose source_file is that filename
\* remain, also when the same filename was uploaded more than once.
C14_DeleteRemovesAll ==
    [][\A q \in DeleteInputs :
         (out'.op = "delete" /\ out'.code = 200 /\ delete_upload(q[1], q[2]))
         => UploadGone(uploads', marks', secure_filename(q[2]))]_vars

\* C18: upsert_student called with a dob for a register number that is
\* already stored does not overwrite the stored dob_hash; it changes nothing
\* of the student and only returns the id of the existing record.
C18_UpsertKeepsHash ==
    [][\A dob \in {None, "2006-02-02"} :
         (/\ out'.op = "upsert_student"
          /\ "R1" \in DOMAIN students
          /\ upsert_student("R1", dob))
         => /\ students'["R1"].dob_hash = students["R1"].dob_hash
            /\ out'.body = "R1"]_vars

\* No upload request is being processed
NoUploadInProgress == \A r \in Reqs : up[r].pc = "idle"

\* Every mark that names a source file has an upload record of that file
SourceFilesRecorded(ms, ups) ==
    \A k \in 1..Len(ms) :
        ms[k].source_file # None
        => \E u \in 1..Len(ups) : ups[u].filename = ms[k].source_file

\* C20: whenever no upload is in progress, every Mark with a source_file f
\* has an Upload record whose filename is f.
C20_MarksHaveUploadRecord ==
    NoUploadInProgress => SourceFilesRecorded(marks, uploads)

\* Every mark has a student of the same register number
Referential(ms, st) ==
    \A k \in 1..Len(ms) : ms[k].register_number \in DOMAIN st

\* C19: referential integrity of marks is kept by every step of an upload,
\* of a batch import and of delete_upload (and by every other step that is
\* not a direct call of a models.py helper): if every Mark has a Student
\* record with the same register_number before the step, so it has after.
C19_MarksHaveStudent ==
    [][(/\ out'.op \notin {"insert_mark", "upsert_student"}
        /\ Referential(marks, students))
       => Referential(marks', students')]_vars

\* A delete went through after uploads, and marks with their students are
\* still stored
C19_Witness ==
    /\ out.op = "delete" /\ out.code = 200
    /\ marks # <<>>
    /\ Referential(marks, students)
    /\ \E k \in 1..Len(marks) : marks[k].source_file # None

\* Upload request r leaves its row on this step: the loop goes to the next
\* row, or the request ends inside the loop
UploadLeavesRow(r) ==
    /\ up[r].pc \in {"student", "mark"}
    /\ up[r].i <= Len(ROWS(up[r].cid))
    /\ (up'[r].pc = "idle" \/ up'[r].i = up[r].i + 1)

\* The batch import leaves its row on this step
ImportLeavesRow ==
    /\ mig.pc \in {"find", "student", "mark"}
    /\ mig.i <= Len(ROWS(mig.cid))
    /\ mig'.i = mig.i + 1

\* A row is accounted for exactly once: the counter goes up by one and the
\* error list stays, or the counter stays and the error list gains one entry
\* at its end that carries the row's position (line of the sheet, the
\* header being line 1)
AccountedOnce(n, n2, errs, errs2, line) ==
    \/ n2 = n + 1 /\ errs2 = errs
    \/ /\ n2 = n
       /\ Len(errs2) = Len(errs) + 1
       /\ SubSeq(errs2, 1, Len(errs)) = errs
       /\ errs2[Len(errs2)].row = line

\* C17: an import accounts for every data row exactly once. Each row left
\* by import_marks_file or by upload_marks (which keeps no error list)
\* either adds one to the processed counter or appends one entry carrying
\* the row's position to the error list, never both and never neither; and
\* the counter plus the number of error entries returned at the end equals
\* the number of data rows.
C17_RowsAccountedOnce ==
    [][/\ ImportLeavesRow
          => AccountedOnce(mig.inserted, mig'.inserted, mig.errors, mig'.errors, mig.i + 1)
       /\ (mig.pc = "find" /\ mig'.pc = "idle")
          => out'.n + Len(out'.body) = Len(ROWS(mig.cid))
       /\ \A r \in Reqs :
            /\ UploadLeavesRow(r)
               => /\ up'[r].pc # "idle"
                  /\ AccountedOnce(up[r].inserted, up'[r].inserted, <<>>, <<>>, up[r].i + 1)
            /\ (up[r].pc = "student" /\ up'[r].pc = "idle" /\ out'.code = 200)
               => out'.n = Len(ROWS(up[r].cid))]_vars

\* Request r commits the mark upsert of its row on this step
UploadMarkCommitted(r) == up[r].pc = "mark" /\ up'[r].pc = "student"

\* The positions of the marks of ms kept for the pair (reg, subject)
KeyPositions(ms, reg, subject) ==
    {k \in 1..Len(ms) : ms[k].register_number = reg /\ ms[k].subject_code = subject}

\* The mark m is, field by field, what one row of one upload request writes
WrittenByOneUpload(m) ==
    \E inp \in ConcUploadInputs :
        /\ ValidToken(inp.token)
        /\ m.source_file = secure_filename(inp.filename)
        /\ m.uploaded_by = decode_jwt(inp.token).email
        /\ \E i \in 1..Len(ROWS(inp.cid)) :
               /\ m.register_number = Strip(PyStr(Cell(inp.cid, i, "register_number")))
               /\ m.subject_code = Strip(PyStr(Cell(inp.cid, i, "subject_code")))
               /\ PyFloat(Cell(inp.cid, i, "marks")).ok
               /\ m.marks = PyFloat(Cell(inp.cid, i, "marks")).v

\* C15: under any interleaving of concurrent uploads that write the same
\* (register_number, subject_code), the store holds exactly one Mark for the
\* pair once an upload has committed its upsert of it, and that Mark carries
\* the marks, uploaded_by and source_file of the upload that committed last;
\* every stored Mark of an upload is, in all three fields, the write of one
\* row of one upload, never a mix of two.
C15_LastWriteWins ==
    [][/\ \A r \in Reqs :
            UploadMarkCommitted(r)
            => \A reg \in {Strip(PyStr(Cell(up[r].cid, up[r].i, "register_number")))},
                  subject \in {Strip(PyStr(Cell(up[r].cid, up[r].i, "subject_code")))} :
                  /\ Cardinality(KeyPositions(marks', reg, subject)) = 1
                  /\ \A k \in KeyPositions(marks', reg, subject) :
                        /\ marks'[k].marks = PyFloat(Cell(up[r].cid, up[r].i, "marks")).v
                        /\ marks'[k].uploaded_by = up[r].email
                        /\ marks'[k].source_file = up[r].filename
                  /\ \A k \in 1..Len(marks) :
                        k \notin KeyPositions(marks, reg, subject) => marks'[k] = marks[k]
       /\ \A k \in 1..Len(marks') :
            marks'[k].source_file # None => WrittenByOneUpload(marks'[k])]_vars

\* Two uploads in progress at once have both written (R1, MATH): the request
\* of b c.csv is past its row 1, and the stored mark is the later write of
\* the request of a.csv
C15_Witness ==
    /\ \E r, q \in Reqs :
          /\ r # q
          /\ up[r].pc # "idle" /\ up[r].filename = "a.csv" /\ up[r].i = 2
          /\ up[q].pc # "idle" /\ up[q].filename = "b_c.csv" /\ up[q].i = 2
    /\ \E k \in 1..Len(marks) :
          /\ marks[k].register_number = "R1" /\ marks[k].subject_code = "MATH"
          /\ marks[k].marks = 88 /\ marks[k].uploaded_by = "staff@x"
          /\ marks[k].source_file = "a.csv" /\ marks[k].uploaded_at = 2

\* The store raises a uniqueness violation on the write the batch import
\* makes on this step: insert_one of a student whose register number was
\* written since find_one missed it, or insert_one of a mark whose pair is
\* already stored under the unique index
ImportUniquenessViolation ==
    /\ mig' # mig
    /\ \/ /\ mig.pc = "student"
          /\ ~mig.found
          /\ ImportReg(mig.cid, mig.i) \in DOMAIN students
       \/ /\ mig.pc = "mark"
          /\ marksUniqueIdx
          /\ PyFloat(Cell(mig.cid, mig.i, "marks")).ok
          /\ KeyPositions(marks, ImportReg(mig.cid, mig.i), ImportSubject(mig.cid, mig.i)) # {}

\* C16: a uniqueness violation raised by the store while a row is written
\* is a benign skip: the import goes on with its rows, the violation is not
\* added to the errors it reports, and the students are left as they were
\* (one record for the register number).
C16_BenignSkip ==
    [][ImportUniquenessViolation
       => /\ mig'.pc # "idle"
          /\ mig'.errors = mig.errors
          /\ students' = students]_vars

\* C21: an upload that is rejected for a file-level defect (unsupported
\* extension, parse error or missing column) leaves the file store as it
\* was: no stored file is added, and the stored file of an earlier upload
\* with the same filename is not replaced.
C21_RejectedUploadKeepsFiles ==
    [][\A r \in Reqs, inp \in UploadInputs :
         ( /\ out'.op = "upload" /\ out'.code = 400
           /\ inp.hasFile /\ inp.filename # ""
           /\ FileDefect(inp.filename, inp.cid) # None
           /\ require_auth(inp.token, None).code = 200
           /\ BeginUpload(r, inp) )
         => blobs' = blobs]_vars

====
